---- MODULE Spec2Model ----
(***************************************************************************)
(* Model of the STM32F7 true-random-number-generator driver (src/rng.rs).  *)
(*                                                                         *)
(* The driver runs as one thread (position pc, current operation op).  The *)
(* peripheral is the environment: it raises data-ready with a fresh word   *)
(* and raises the clock-error / seed-error flags at any moment between two *)
(* register accesses of the driver.                                        *)
(*                                                                         *)
(* Number representation.  TLC integers are 32-bit signed, so a u32 is a   *)
(* sequence <<hi, lo>> of two 16-bit halves (most significant first) and a *)
(* u64 is a sequence of four halves.  A byte is a number in 0..255.        *)
(***************************************************************************)
EXTENDS Integers, Sequences, FiniteSets, TLC

\* ---------------------------------------------------------------- bounds
\* longest buffer handed to try_fill_bytes / fill_bytes / read
MaxLen == 6
\* most all-clear (idle) polls of one busy-wait loop
MaxPolls == 2

\* ------------------------------------------------------------- constants
\* radix of a 16-bit half and of a byte
Half == 2^16
Byte == 2^8
\* const BATCH_SIZE: usize = 4 / mem::size_of::<u8>()
BATCH_SIZE == 4
\* ErrorKind discriminants
ClockErrorCode == 2
SeedErrorCode == 4
\* rand_core::Error::CUSTOM_START = (1 << 31) + (1 << 30) = 0xC000_0000
CUSTOM_START == <<49152, 0>>

\* words the data register can deliver: 0x11223344, 0x55667788, 0xDEADBEEF
Words == { <<4386, 13124>>, <<21862, 30600>>, <<57005, 48879>> }
ZeroWord == <<0, 0>>

VARIABLES
    rcc,        \* clock control: [pllon, pllrdy, rngen (peripheral clock gate)]
    cr,         \* RNG control register: [rngen]
    sr,         \* RNG status register: [cecs, secs, drdy]
    dr,         \* RNG data register (a u32)
    irq,        \* TRUE when global interrupts are enabled
    irqSaved,   \* interrupt state saved by interrupt::free
    owner,      \* who holds the register handle: "caller", "init", "rng"
    op,         \* operation being (or last) executed
    pc,         \* position of the driver thread
    result,     \* what the last operation returned
    buffer,     \* the byte buffer of the fill operations
    i,          \* try_fill_bytes: the index i
    w1,         \* next_u64: the first word
    polls,      \* idle iterations of the busy-wait loop now running
    srReads,    \* status-register reads made by the current operation
    drReads,    \* data-register reads made by the current operation
    words,      \* words the current operation read from the data register
    buffer0,    \* the buffer as it was when the operation was called
    written,    \* buffer positions the current operation assigned
    warmExit,   \* status value read by the poll that ended init's warm-up
    status,     \* get_rand: the status value of the current iteration
    fault0,     \* TRUE when a fault flag was set as the operation was called
    released,   \* "never", or how the last release left the fault flags:
                \* "clean" or "faulty"
    faults      \* faults get_rand returned on the current instance: 0, 1,
                \* or 2 for two and more

vars == <<rcc, cr, sr, dr, irq, irqSaved, owner, op, pc, result, buffer, i,
          w1, polls, srReads, drReads, words, buffer0, written, warmExit,
          status, fault0, released, faults>>

hw == <<rcc, cr, sr, dr>>
call == <<buffer, i, w1, words, buffer0, written, status, fault0>>
history == <<released, faults>>

\* ------------------------------------------------------ pure functions
Min(a, b) == IF a < b THEN a ELSE b

RECURSIVE Pow2(_)
Pow2(n) == IF n = 0 THEN 1 ELSE 2 * Pow2(n - 1)

\* limb k of x, counted from the least significant half (k = 0)
Limb(x, k) == IF k >= 0 /\ k < Len(x) THEN x[Len(x) - k] ELSE 0

\* u32::to_be_bytes: most significant byte first
ToBeBytes(w) ==
    << Limb(w, 1) \div Byte, Limb(w, 1) % Byte,
       Limb(w, 0) \div Byte, Limb(w, 0) % Byte >>

\* u32::to_ne_bytes on the little-endian Cortex-M7: least significant byte
\* first in memory
ToNeBytes(w) ==
    << Limb(w, 0) % Byte, Limb(w, 0) \div Byte,
       Limb(w, 1) % Byte, Limb(w, 1) \div Byte >>

\* `w as u64`: zero extension
AsU64(w) == <<0, 0, w[1], w[2]>>

\* u64 << n for 0 <= n < 64; bits shifted beyond bit 63 are dropped
Shl(x, n) ==
    LET q == n \div 16
        r == n % 16
        limb(k) == ((Limb(x, k - q) * Pow2(r)) % Half)
                   + (Limb(x, k - q - 1) \div Pow2(16 - r))
    IN  << limb(3), limb(2), limb(1), limb(0) >>

\* bitwise or of two numbers below 2^n
RECURSIVE BitOrN(_, _, _)
BitOrN(a, b, n) ==
    IF n = 0 THEN 0
    ELSE (IF a % 2 = 1 \/ b % 2 = 1 THEN 1 ELSE 0)
         + 2 * BitOrN(a \div 2, b \div 2, n - 1)

\* u64 | u64
BitOr(x, y) == [k \in 1..4 |-> BitOrN(x[k], y[k], 16)]

\* the two words in the wrong places: (w2 as u64).shl(32) | (w1 as u64)
CombineSwapped(a, b) == BitOr(Shl(AsU64(b), 32), AsU64(a))

\* next_u64: (w1 as u64).shl(32) | (w2 as u64)
Combine(a, b) == BitOr(Shl(AsU64(a), 32), AsU64(b))

\* u32 + small number, as `CUSTOM_START + err as u32`
AddU32(a, n) ==
    LET lo == a[2] + n
        hi == a[1] + (lo \div Half)
    IN  << hi % Half, lo % Half >>

\* `err as u32` for ErrorKind
Discriminant(kind) ==
    IF kind = "ClockError" THEN ClockErrorCode ELSE SeedErrorCode

\* impl From<ErrorKind> for rand_core::Error: the custom error code
ErrorFrom(kind) == AddU32(CUSTOM_START, Discriminant(kind))

\* get_rand with the seed-error test ahead of the clock-error test
ClassifySeedFirst(st) ==
    IF st.secs THEN "SeedError"
    ELSE IF st.cecs THEN "ClockError"
    ELSE IF st.drdy THEN "Data"
    ELSE "Idle"

\* get_rand that never takes the data-ready branch
ClassifyNoData(st) ==
    IF st.cecs THEN "ClockError"
    ELSE IF st.secs THEN "SeedError"
    ELSE "Idle"

\* get_rand that looks at the fault flags only once data is ready
ClassifyWaitsForData(st) ==
    IF ~st.drdy THEN "Idle"
    ELSE IF st.cecs THEN "ClockError"
    ELSE IF st.secs THEN "SeedError"
    ELSE "Data"

\* get_rand without the seed-error test
ClassifyClockOnly(st) ==
    IF st.cecs THEN "ClockError"
    ELSE IF st.drdy THEN "Data"
    ELSE "Idle"

\* get_rand with the data-ready test first
ClassifyDataFirst(st) ==
    IF st.drdy THEN "Data"
    ELSE IF st.cecs THEN "ClockError"
    ELSE IF st.secs THEN "SeedError"
    ELSE "Idle"

\* the decision get_rand takes on one status value
Classify(st) ==
    IF st.cecs THEN "ClockError"
    ELSE IF st.secs THEN "SeedError"
    ELSE IF st.drdy THEN "Data"
    ELSE "Idle"

\* a fill that takes one byte from each word
CopyCountOne(buf, idx) == Min(1, Len(buf) - idx)

\* the number of bytes one pass of try_fill_bytes' loop copies
CopyCount(buf, idx) == Min(BATCH_SIZE, Len(buf) - idx)

\* a pass that also zeroes the rest of the buffer
CopyWordZeroRest(buf, idx, w) ==
    LET bytes == ToNeBytes(w)
        n == CopyCount(buf, idx)
    IN  [j \in 1..Len(buf) |->
            IF j > idx /\ j <= idx + n THEN bytes[j - idx]
            ELSE IF j > idx + n THEN 0 ELSE buf[j]]

\* one pass of try_fill_bytes' loop body on word w: the buffer afterwards
CopyWord(buf, idx, w) ==
    LET bytes == ToNeBytes(w)
        n == CopyCount(buf, idx)
    IN  [j \in 1..Len(buf) |->
            IF j > idx /\ j <= idx + n THEN bytes[j - idx] ELSE buf[j]]

\* results
NoResult == [tag |-> "none", kind |-> "none", val |-> <<>>]
Ok(v) == [tag |-> "Ok", kind |-> "none", val |-> v]
Err(kind) == [tag |-> "Err", kind |-> kind, val |-> <<0, Discriminant(kind)>>]
ErrRandCore(kind) == [tag |-> "Err", kind |-> "rand_core", val |-> ErrorFrom(kind)]

\* buffer contents before a fill: position j holds 0xA0 + j
InitialBuffer(n) == [j \in 1..n |-> 160 + j]

\* ------------------------------------------------------- initial state
\* Power-on: the peripheral is in its reset state, the caller holds the
\* raw register handle; the PLL and the interrupt mask are as the board
\* set-up left them.
ClearStatus == [cecs |-> FALSE, secs |-> FALSE, drdy |-> FALSE]

Init ==
    /\ rcc \in { [pllon |-> a, pllrdy |-> b, rngen |-> FALSE] :
                    a \in BOOLEAN, b \in BOOLEAN }
    /\ rcc.pllrdy => rcc.pllon
    /\ cr = [rngen |-> FALSE]
    /\ sr = ClearStatus
    /\ dr = ZeroWord
    /\ irq \in BOOLEAN
    /\ irqSaved = FALSE
    /\ owner = "caller"
    /\ op = "none"
    /\ pc = "idle"
    /\ result = NoResult
    /\ buffer = <<>>
    /\ i = 0
    /\ w1 = ZeroWord
    /\ polls = 0
    /\ srReads = 0
    /\ drReads = 0
    /\ words = <<>>
    /\ buffer0 = <<>>
    /\ written = {}
    /\ warmExit = ClearStatus
    /\ status = ClearStatus
    /\ fault0 = FALSE
    /\ released = "never"
    /\ faults = 0

\* --------------------------------------------------------- the hardware
\* The PLL locks some time after it was switched on.
HwPllLock ==
    /\ rcc.pllon /\ ~rcc.pllrdy
    /\ rcc' = [rcc EXCEPT !.pllrdy = TRUE]
    /\ UNCHANGED <<cr, sr, dr, irq, irqSaved, owner, op, pc, result, polls,
                   srReads, drReads, warmExit>>
    /\ UNCHANGED call
    /\ UNCHANGED history

\* the generator runs when it is clocked and enabled
Running == rcc.rngen /\ cr.rngen

\* A fresh word becomes available: DRDY is raised.
HwDataReady ==
    /\ Running /\ ~sr.drdy
    /\ \E w \in Words : dr' = w
    /\ sr' = [sr EXCEPT !.drdy = TRUE]
    /\ UNCHANGED <<rcc, cr, irq, irqSaved, owner, op, pc, result, polls,
                   srReads, drReads, warmExit>>
    /\ UNCHANGED call
    /\ UNCHANGED history

\* The clock checker trips: CECS is raised and stays.
HwClockError ==
    /\ Running /\ ~sr.cecs
    /\ sr' = [sr EXCEPT !.cecs = TRUE]
    /\ UNCHANGED <<rcc, cr, dr, irq, irqSaved, owner, op, pc, result, polls,
                   srReads, drReads, warmExit>>
    /\ UNCHANGED call
    /\ UNCHANGED history

\* The seed self-test trips: SECS is raised and stays.
HwSeedError ==
    /\ Running /\ ~sr.secs
    /\ sr' = [sr EXCEPT !.secs = TRUE]
    /\ UNCHANGED <<rcc, cr, dr, irq, irqSaved, owner, op, pc, result, polls,
                   srReads, drReads, warmExit>>
    /\ UNCHANGED call
    /\ UNCHANGED history

\* ----------------------------------------------------------- RngExt::init
\* start of an operation: the per-operation records are cleared
Begin(name, buf) ==
    /\ op' = name
    /\ result' = NoResult
    /\ buffer' = buf
    /\ buffer0' = buf
    /\ i' = 0
    /\ w1' = ZeroWord
    /\ polls' = 0
    /\ srReads' = 0
    /\ drReads' = 0
    /\ words' = <<>>
    /\ written' = {}
    /\ status' = ClearStatus
    /\ fault0' = (sr.cecs \/ sr.secs)

\* an init that can be called while an instance holds the handle
InitCallAnyOwner ==
    /\ pc = "idle" /\ owner \in {"caller", "rng"}
    /\ Begin("init", <<>>)
    /\ owner' = "init"
    /\ irqSaved' = irq
    /\ irq' = FALSE
    /\ pc' = "init_pll_check"
    /\ faults' = 0
    /\ UNCHANGED <<rcc, cr, sr, dr, warmExit, released>>

\* init(self): the handle is moved in; interrupt::free masks interrupts
InitCall ==
    /\ pc = "idle" /\ owner = "caller"
    /\ Begin("init", <<>>)
    /\ owner' = "init"
    /\ irqSaved' = irq
    /\ irq' = FALSE
    /\ pc' = "init_pll_check"
    /\ faults' = 0
    /\ UNCHANGED <<rcc, cr, sr, dr, warmExit, released>>

\* an init that does not look at the PLL
InitPllCheckSkipped ==
    /\ pc = "init_pll_check"
    /\ pc' = "init_clk_enable"
    /\ UNCHANGED <<rcc, cr, sr, dr, irq, irqSaved, owner, op, result, polls,
                   srReads, drReads, warmExit>>
    /\ UNCHANGED call
    /\ UNCHANGED history

\* if rcc.cr.read().pllrdy().bit_is_clear()
InitPllCheck ==
    /\ pc = "init_pll_check"
    /\ pc' = IF rcc.pllrdy THEN "init_clk_enable" ELSE "init_pll_on"
    /\ UNCHANGED <<rcc, cr, sr, dr, irq, irqSaved, owner, op, result, polls,
                   srReads, drReads, warmExit>>
    /\ UNCHANGED call
    /\ UNCHANGED history

\* rcc.cr.modify(|_, w| w.pllon().set_bit())
InitPllOn ==
    /\ pc = "init_pll_on"
    /\ rcc' = [rcc EXCEPT !.pllon = TRUE]
    /\ pc' = "init_pll_wait"
    /\ UNCHANGED <<cr, sr, dr, irq, irqSaved, owner, op, result, polls,
                   srReads, drReads, warmExit>>
    /\ UNCHANGED call
    /\ UNCHANGED history

\* while rcc.cr.read().pllrdy().bit_is_clear() {}: the loop is left by the
\* read that finds PLLRDY set; a read that finds it clear changes nothing
InitPllWait ==
    /\ pc = "init_pll_wait"
    /\ rcc.pllrdy
    /\ pc' = "init_clk_enable"
    /\ UNCHANGED <<rcc, cr, sr, dr, irq, irqSaved, owner, op, result, polls,
                   srReads, drReads, warmExit>>
    /\ UNCHANGED call
    /\ UNCHANGED history

\* RNG::enable_unchecked(): the peripheral clock gate is opened
EnableUnchecked(r) == [r EXCEPT !.rngen = TRUE]

\* RNG::enable_unchecked(); RNG::is_enabled()
InitClkEnable ==
    /\ pc = "init_clk_enable"
    /\ rcc' = EnableUnchecked(rcc)
    /\ pc' = "init_reset"
    /\ UNCHANGED <<cr, sr, dr, irq, irqSaved, owner, op, result, polls,
                   srReads, drReads, warmExit>>
    /\ UNCHANGED call
    /\ UNCHANGED history

\* an init that leaves out the peripheral reset
InitResetSkipped ==
    /\ pc = "init_reset"
    /\ pc' = "init_rngen"
    /\ UNCHANGED <<rcc, cr, sr, dr, irq, irqSaved, owner, op, result, polls,
                   srReads, drReads, warmExit>>
    /\ UNCHANGED call
    /\ UNCHANGED history

\* RNG::reset_unchecked(): the peripheral's registers take their reset values
InitReset ==
    /\ pc = "init_reset"
    /\ cr' = [rngen |-> FALSE]
    /\ sr' = ClearStatus
    /\ dr' = ZeroWord
    /\ pc' = "init_rngen"
    /\ UNCHANGED <<rcc, irq, irqSaved, owner, op, result, polls,
                   srReads, drReads, warmExit>>
    /\ UNCHANGED call
    /\ UNCHANGED history

\* self.cr.modify(|_, w| w.rngen().set_bit())
InitRngEn ==
    /\ pc = "init_rngen"
    /\ cr' = [cr EXCEPT !.rngen = TRUE]
    /\ pc' = "init_warm_poll"
    /\ UNCHANGED <<rcc, sr, dr, irq, irqSaved, owner, op, result, polls,
                   srReads, drReads, warmExit>>
    /\ UNCHANGED call
    /\ UNCHANGED history

\* a warm-up with the loop condition inverted
WarmUpDoneInverted(st) == ~st.drdy

\* a warm-up that does not wait for data-ready
WarmUpDoneNoWait(st) == ~st.cecs

\* the loop condition of the warm-up: does this status value end the loop?
WarmUpDone(st) == st.drdy

\* while !self.sr.read().drdy().bit()
InitWarmPoll ==
    /\ pc = "init_warm_poll"
    /\ srReads' = srReads + 1
    /\ IF WarmUpDone(sr)
       THEN /\ warmExit' = sr
            /\ pc' = "init_exit"
            /\ polls' = polls
       ELSE /\ polls < MaxPolls
            /\ polls' = polls + 1
            /\ pc' = "init_warm_assert"
            /\ warmExit' = warmExit
    /\ UNCHANGED <<rcc, cr, sr, dr, irq, irqSaved, owner, op, result, drReads>>
    /\ UNCHANGED call
    /\ UNCHANGED history

\* an assertion on the wrong flag
WarmUpAssertSeed(st) == ~st.secs

\* the condition of assert!(!self.sr.read().cecs().bit())
WarmUpAssert(st) == ~st.cecs

\* assert!(!self.sr.read().cecs().bit()): a second read of the status
\* register; the panic ends the program
InitWarmAssert ==
    /\ pc = "init_warm_assert"
    /\ srReads' = srReads + 1
    /\ pc' = IF WarmUpAssert(sr) THEN "init_warm_poll" ELSE "aborted"
    /\ UNCHANGED <<rcc, cr, sr, dr, irq, irqSaved, owner, op, result, polls,
                   drReads, warmExit>>
    /\ UNCHANGED call
    /\ UNCHANGED history

\* an end of the critical section that enables interrupts unconditionally
InitReturnAlwaysEnable ==
    /\ pc = "init_exit"
    /\ irq' = TRUE
    /\ owner' = "rng"
    /\ result' = Ok(<<>>)
    /\ pc' = "idle"
    /\ UNCHANGED <<rcc, cr, sr, dr, irqSaved, op, polls, srReads, drReads,
                   warmExit>>
    /\ UNCHANGED call
    /\ UNCHANGED history

\* end of interrupt::free (interrupts are restored if they were enabled),
\* then Rng { rb: self }
InitReturn ==
    /\ pc = "init_exit"
    /\ irq' = irqSaved
    /\ owner' = "rng"
    /\ result' = Ok(<<>>)
    /\ pc' = "idle"
    /\ UNCHANGED <<rcc, cr, sr, dr, irqSaved, op, polls, srReads, drReads,
                   warmExit>>
    /\ UNCHANGED call
    /\ UNCHANGED history

\* ------------------------------------------------- operations of Rng
FillOps == {"try_fill_bytes", "read", "fill_bytes"}
UnwrapOps == {"next_u32", "next_u64", "fill_bytes"}
Lengths == 0..MaxLen

\* a call on the instance; get_rand is entered at its loop head
Enter(name, buf) ==
    /\ pc = "idle" /\ owner = "rng"
    /\ Begin(name, buf)
    /\ pc' = "gr_poll"
    /\ UNCHANGED <<rcc, cr, sr, dr, irq, irqSaved, owner, warmExit>>
    /\ UNCHANGED history

\* pub fn get_rand(&mut self)
GetRandCall == Enter("get_rand", <<>>)

\* fn next_u32(&mut self): self.get_rand()
NextU32Call == Enter("next_u32", <<>>)

\* fn next_u64(&mut self): let w1 = self.next_u32()
NextU64Call == Enter("next_u64", <<>>)

\* a loop that tests its condition after the body
FillMoreInclusive(buf, idx) == idx <= Len(buf)

\* the loop condition of try_fill_bytes: while i < buffer.len()
FillMore(buf, idx) == idx < Len(buf)

\* try_fill_bytes / read / fill_bytes on a buffer of length n: with nothing
\* to fill the loop is never entered and the call returns Ok(()) at once
FillCall(name, n) ==
    /\ pc = "idle" /\ owner = "rng"
    /\ Begin(name, InitialBuffer(n))
    /\ IF FillMore(InitialBuffer(n), 0)
       THEN pc' = "gr_poll"
       ELSE pc' = "done"
    /\ UNCHANGED <<rcc, cr, sr, dr, irq, irqSaved, owner, warmExit>>
    /\ UNCHANGED history

TryFillBytesCall == \E n \in Lengths : FillCall("try_fill_bytes", n)

\* Read::read(buffer): self.try_fill_bytes(buffer)
ReadCall == \E n \in Lengths : FillCall("read", n)

\* fill_bytes(dest): self.try_fill_bytes(dest).unwrap()
FillBytesCall == \E n \in Lengths : FillCall("fill_bytes", n)

\* try_fill_bytes leaves its loop: Ok(())
FillDone ==
    /\ pc = "done"
    /\ result' = Ok(<<>>)
    /\ pc' = "idle"
    /\ UNCHANGED <<rcc, cr, sr, dr, irq, irqSaved, owner, op, polls, srReads,
                   drReads, warmExit>>
    /\ UNCHANGED call
    /\ UNCHANGED history

\* every caller hands the fault back instead of panicking
OnFaultReturn(kind) ==
    /\ pc' = "idle"
    /\ result' = IF op \in FillOps THEN ErrRandCore(kind) ELSE Err(kind)

\* what the caller of get_rand does with Err(kind): get_rand itself hands
\* it back, `?` in try_fill_bytes converts and returns it, unwrap() panics
OnFault(kind) ==
    IF op \in UnwrapOps
    THEN /\ pc' = "aborted"
         /\ result' = result
    ELSE /\ pc' = "idle"
         /\ result' = IF op \in FillOps THEN ErrRandCore(kind) ELSE Err(kind)

\* one iteration of get_rand's loop: let status = self.rb.sr.read(), then
\* the three tests on that value
GetRandPoll ==
    /\ pc = "gr_poll"
    /\ srReads' = srReads + 1
    /\ status' = sr
    /\ faults' = IF Classify(sr) \in {"ClockError", "SeedError"}
                  THEN (IF faults = 0 THEN 1 ELSE 2)
                  ELSE faults
    /\ released' = released
    /\ LET verdict == Classify(sr)
       IN  IF verdict = "Idle"
           THEN /\ polls < MaxPolls
                /\ polls' = polls + 1
                /\ UNCHANGED <<pc, result>>
           ELSE IF verdict = "Data"
           THEN /\ pc' = "gr_read"
                /\ UNCHANGED <<polls, result>>
           ELSE /\ OnFault(verdict)
                /\ UNCHANGED polls
    /\ UNCHANGED <<rcc, cr, sr, dr, irq, irqSaved, owner, op, drReads,
                   warmExit>>
    /\ UNCHANGED <<buffer, i, w1, words, buffer0, written, fault0>>

\* what the caller of get_rand does with Ok(w)
OnWord(w) ==
    IF op \in FillOps
    THEN \* the body of try_fill_bytes' loop, then its condition
         /\ buffer' = CopyWord(buffer, i, w)
         /\ written' = written \cup (i + 1 .. i + CopyCount(buffer, i))
         /\ i' = i + CopyCount(buffer, i)
         /\ pc' = IF FillMore(buffer, i + CopyCount(buffer, i))
                  THEN "gr_poll" ELSE "done"
         /\ UNCHANGED <<result, w1>>
    ELSE IF op = "next_u64" /\ Len(words) = 0
    THEN \* let w1 = self.next_u32(); the second next_u32 follows
         /\ w1' = w
         /\ pc' = "gr_poll"
         /\ UNCHANGED <<result, buffer, i, written>>
    ELSE IF op = "next_u64"
    THEN /\ result' = Ok(Combine(w1, w))
         /\ pc' = "idle"
         /\ UNCHANGED <<w1, buffer, i, written>>
    ELSE \* get_rand, next_u32
         /\ result' = Ok(w)
         /\ pc' = "idle"
         /\ UNCHANGED <<w1, buffer, i, written>>

\* return Ok(self.rb.dr.read().rndata().bits()): reading the data register
\* takes the word and clears DRDY
GetRandReadData ==
    /\ pc = "gr_read"
    /\ drReads' = drReads + 1
    /\ words' = Append(words, dr)
    /\ sr' = [sr EXCEPT !.drdy = FALSE]
    /\ OnWord(dr)
    /\ polls' = IF pc' = "gr_poll" THEN 0 ELSE polls
    /\ UNCHANGED <<rcc, cr, dr, irq, irqSaved, owner, op, srReads, warmExit,
                   buffer0, status, fault0>>
    /\ UNCHANGED history

\* a release that switches the generator off
ReleaseDisables ==
    /\ pc = "idle" /\ owner = "rng"
    /\ owner' = "caller"
    /\ op' = "release"
    /\ cr' = [cr EXCEPT !.rngen = FALSE]
    /\ released' = IF sr.cecs \/ sr.secs THEN "faulty" ELSE "clean"
    /\ UNCHANGED <<rcc, sr, dr, irq, irqSaved, pc, result, polls,
                   srReads, drReads, warmExit, faults>>
    /\ UNCHANGED call

\* pub fn release(self) -> RNG: hands the register handle back
Release ==
    /\ pc = "idle" /\ owner = "rng"
    /\ owner' = "caller"
    /\ op' = "release"
    /\ released' = IF sr.cecs \/ sr.secs THEN "faulty" ELSE "clean"
    /\ UNCHANGED <<rcc, cr, sr, dr, irq, irqSaved, pc, result, polls,
                   srReads, drReads, warmExit, faults>>
    /\ UNCHANGED call

\* ------------------------------------------------------- specification
Next ==
    \/ HwPllLock \/ HwDataReady \/ HwClockError \/ HwSeedError
    \/ InitCall \/ InitPllCheck \/ InitPllOn \/ InitPllWait
    \/ InitClkEnable \/ InitReset \/ InitRngEn
    \/ InitWarmPoll \/ InitWarmAssert \/ InitReturn
    \/ GetRandCall \/ NextU32Call \/ NextU64Call
    \/ TryFillBytesCall \/ ReadCall \/ FillBytesCall \/ FillDone
    \/ GetRandPoll \/ GetRandReadData
    \/ Release

Spec == Init /\ [][Next]_vars

\* the steps the processor takes inside an operation; a call of an
\* operation is the caller's choice and is not among them
DriverStep ==
    \/ InitPllCheck \/ InitPllOn \/ InitPllWait
    \/ InitClkEnable \/ InitReset \/ InitRngEn
    \/ InitWarmPoll \/ InitWarmAssert \/ InitReturn
    \/ FillDone \/ GetRandPoll \/ GetRandReadData

\* The processor keeps executing the operation it is in; the PLL locks
\* once switched on and the running generator keeps producing words.
FairSpec ==
    /\ Spec
    /\ WF_vars(DriverStep)
    /\ WF_vars(HwPllLock)
    /\ WF_vars(HwDataReady)

TypeOK ==
    /\ pc \in {"idle", "aborted", "done", "gr_poll", "gr_read",
               "init_pll_check", "init_pll_on", "init_pll_wait",
               "init_clk_enable", "init_reset", "init_rngen",
               "init_warm_poll", "init_warm_assert", "init_exit"}
    /\ owner \in {"caller", "init", "rng"}
    /\ Len(buffer) <= MaxLen /\ i <= Len(buffer)
    /\ polls \in 0..MaxPolls

\* ================================================================ claims
AllSet == [cecs |-> TRUE, secs |-> TRUE, drdy |-> TRUE]
Faulty(st) == st.cecs \/ st.secs

\* C1: in get_rand, the status value of a poll decides the outcome: with
\* clock-error set the result is ClockError whatever the other two flags
\* are; with clock-error clear and seed-error set it is SeedError whatever
\* data-ready is; the data register is read, and its word returned, only
\* when both fault flags are clear and data-ready is set.
C1_FaultPriority ==
    (op = "get_rand" /\ srReads > 0) =>
        /\ status.cecs => (pc = "idle" /\ result = Err("ClockError"))
        /\ (~status.cecs /\ status.secs) =>
                (pc = "idle" /\ result = Err("SeedError"))
        /\ (pc = "gr_read" \/ result.tag = "Ok") =>
                (~status.cecs /\ ~status.secs /\ status.drdy)
        /\ result.tag = "Ok" => (drReads = 1 /\ result.val = words[1])
        /\ (~Faulty(status) /\ status.drdy) =>
                (pc = "gr_read" \/ (pc = "idle" /\ result.tag = "Ok"))

\* a get_rand that met all three flags at once and reported ClockError
C1_Witness ==
    /\ op = "get_rand" /\ pc = "idle"
    /\ status = AllSet
    /\ result = Err("ClockError")

\* C2: whenever a driver instance exists, the status value that ended
\* init's warm-up had data-ready set and clock-error clear.
C2_WarmUpEndedWithoutClockError ==
    owner = "rng" => (warmExit.drdy /\ ~warmExit.cecs)

\* C3 as stated: when init returns, the generator is enabled and neither
\* fault flag is set.
C3_FaultFreeAtReturn ==
    [][(pc = "init_exit" /\ pc' = "idle") =>
            (cr'.rngen /\ ~sr'.cecs /\ ~sr'.secs)]_vars

\* C3, amended: when init returns the instance, the peripheral clock gate
\* and the generator-enable bit are set and data-ready is set; the fault
\* flags may be set.
C3_EnabledAndReadyAtReturn ==
    [][(pc = "init_exit" /\ pc' = "idle") =>
            (owner' = "rng" /\ rcc'.rngen /\ cr'.rngen /\ sr'.drdy)]_vars

\* init has just returned an instance of a peripheral whose fault flags
\* were already set when the warm-up ended
C3_Witness ==
    /\ op = "init" /\ pc = "idle" /\ owner = "rng"
    /\ cr.rngen /\ sr.drdy
    /\ warmExit.secs /\ warmExit.cecs

\* C4: in the warm-up, a poll that finds data-ready clear is followed by
\* the clock-error check; a check that finds clock-error set aborts; after
\* the abort init makes no further register read and never yields an
\* instance or a result.
C4_WarmUpClockErrorFatal ==
    [][ /\ (pc = "init_warm_poll" /\ srReads' = srReads + 1 /\ ~sr.drdy)
                => pc' = "init_warm_assert"
        /\ (pc = "init_warm_assert" /\ srReads' = srReads + 1 /\ sr.cecs)
                => pc' = "aborted"
        /\ (pc = "aborted" /\ op = "init")
                => /\ pc' = "aborted" /\ op' = "init"
                   /\ owner' = "init" /\ result' = NoResult
                   /\ srReads' = srReads /\ drReads' = drReads ]_vars

\* init aborted on a clock error seen by its check
C4_Witness ==
    /\ pc = "aborted" /\ op = "init" /\ owner = "init"
    /\ sr.cecs /\ ~sr.drdy /\ srReads = 2

\* number of words needed for n bytes
Ceil4(n) == (n + 3) \div 4

\* byte k (k = 0 the least significant) of the 32-bit value w; on the
\* little-endian target it is the byte at offset k in memory
ByteAt(w, k) == (w[2 - (k \div 2)] \div (Byte ^ (k % 2))) % Byte

\* the first n bytes of buf are those of the word stream ws, in order
FilledFrom(buf, ws, n) ==
    \A j \in 0..(n - 1) : buf[j + 1] = ByteAt(ws[(j \div 4) + 1], j % 4)

\* C5: a byte fill of a buffer of length N that ends with no fault flag set
\* has made exactly ceil(N/4) data-register reads, has assigned all N
\* buffer positions and has returned Ok; this holds for every call,
\* whatever the length of the call before it.
C5_FillReadsCeilWords ==
    (op \in FillOps /\ pc = "idle" /\ ~Faulty(sr)) =>
        /\ result = Ok(<<>>)
        /\ drReads = Ceil4(Len(buffer))
        /\ Len(words) = drReads
        /\ written = 1..Len(buffer)
        /\ i = Len(buffer)

\* a successful 6-byte fill: two words read, the second used in part
C5_Witness ==
    /\ op = "try_fill_bytes" /\ pc = "idle" /\ ~Faulty(sr)
    /\ Len(buffer) = 6 /\ drReads = 2 /\ result = Ok(<<>>)

\* C6: a byte fill (try_fill_bytes, read, fill_bytes) of an empty buffer
\* returns Ok without a single status-register or data-register read, also
\* when a fault flag was set at the call.
C6_EmptyFillTouchesNothing ==
    (op \in FillOps /\ Len(buffer) = 0) =>
        /\ pc \in {"done", "idle"}
        /\ srReads = 0 /\ drReads = 0
        /\ pc = "idle" => result = Ok(<<>>)

\* an empty fill_bytes that returned Ok although a fault flag was set
\* when it was called
C6_Witness ==
    /\ op = "fill_bytes" /\ Len(buffer) = 0 /\ pc = "idle"
    /\ fault0 /\ sr.cecs /\ result = Ok(<<>>)

\* C7: after a successful fill of N bytes from the words w0, w1, ...:
\* buffer[j] is byte (j mod 4) of word w_(j div 4), least significant byte
\* first; ceil(N/4) words were used, the last one for its first N mod 4
\* bytes when 4 does not divide N.  In particular 6 bytes from 0x11223344,
\* 0x55667788 are 44 33 22 11 88 77.
C7_FillByteLayout ==
    (op \in FillOps /\ pc = "idle" /\ result.tag = "Ok") =>
        /\ Len(words) = Ceil4(Len(buffer))
        /\ FilledFrom(buffer, words, Len(buffer))
        /\ (Len(buffer) = 6 /\ words = << <<4386, 13124>>, <<21862, 30600>> >>)
                => buffer = <<68, 51, 34, 17, 136, 119>>

\* scenario C: 6 bytes filled from 0x11223344, 0x55667788
C7_Witness ==
    /\ op = "try_fill_bytes" /\ pc = "idle" /\ result.tag = "Ok"
    /\ Len(buffer) = 6
    /\ words = << <<4386, 13124>>, <<21862, 30600>> >>

\* C8: a try_fill_bytes / read that returns an error returns the code of
\* the fault get_rand classified (0xC0000002 for ClockError, 0xC0000004 for
\* SeedError); it stopped at the faulting word: the last status value read
\* is the faulty one, one data-register read was made per word copied,
\* the bytes of those words are in the buffer and every later position
\* holds what it held before the call.  After the return no register is
\* read on behalf of that call.
C8_FillStopsAtFault ==
    (op \in {"try_fill_bytes", "read"} /\ pc = "idle" /\ result.tag = "Err") =>
        /\ Faulty(status)
        /\ result.kind = "rand_core"
        /\ result.val = IF status.cecs THEN <<49152, 2>> ELSE <<49152, 4>>
        /\ i < Len(buffer) /\ i = 4 * drReads /\ Len(words) = drReads
        /\ written = 1..i
        /\ FilledFrom(buffer, words, i)
        /\ \A j \in (i + 1)..Len(buffer) : buffer[j] = buffer0[j]

\* a 6-byte fill that copied one word and then met a seed error
C8_Witness ==
    /\ op = "try_fill_bytes" /\ pc = "idle" /\ result.tag = "Err"
    /\ Len(buffer) = 6 /\ i = 4
    /\ ~status.cecs /\ status.secs
    /\ buffer[5] = 165 /\ buffer[6] = 166

\* C9: a next_u64 that returns has made exactly two data-register reads
\* and returns word1 * 2^32 + word2: the halves of the first word followed
\* by the halves of the second.
C9_NextU64HighThenLow ==
    (op = "next_u64" /\ pc = "idle") =>
        /\ result.tag = "Ok"
        /\ drReads = 2 /\ Len(words) = 2
        /\ result.val = words[1] \o words[2]

\* next_u64 on 0xDEADBEEF then 0x55667788
C9_Witness ==
    /\ op = "next_u64" /\ pc = "idle"
    /\ words = << <<57005, 48879>>, <<21862, 30600>> >>
    /\ result = Ok(<<57005, 48879, 21862, 30600>>)

\* C10: next_u32, next_u64 and fill_bytes never return when a word read
\* faults: a poll that finds a fault flag set aborts, no register is read
\* after the abort, and a call that did return met no fault (in next_u64 a
\* fault on the first read aborts with no word read at all).
C10_InfallibleAbortOnFault ==
    [][ /\ (op \in UnwrapOps /\ pc = "gr_poll" /\ srReads' = srReads + 1
                /\ Faulty(sr))
                => pc' = "aborted"
        /\ (op \in UnwrapOps /\ pc = "aborted")
                => /\ pc' = "aborted" /\ op' = op /\ result' = NoResult
                   /\ srReads' = srReads /\ drReads' = drReads
                   /\ Faulty(status)
        /\ (op \in UnwrapOps /\ pc' = "idle" /\ pc # "idle")
                => (result'.tag = "Ok" /\ ~Faulty(status')) ]_vars

\* next_u64 aborted on its first word read, before any word was read
C10_Witness ==
    /\ op = "next_u64" /\ pc = "aborted"
    /\ drReads = 0 /\ srReads = 1 /\ Faulty(status)

\* positions of init, of the operations on an instance
InitPcs == {"init_pll_check", "init_pll_on", "init_pll_wait",
            "init_clk_enable", "init_reset", "init_rngen",
            "init_warm_poll", "init_warm_assert", "init_exit"}
WarmUpPcs == {"init_warm_poll", "init_warm_assert", "init_exit"}
RngPcs == {"gr_poll", "gr_read", "done"}

\* C11: an init that follows a release runs the whole sequence again,
\* whatever the first instance did and however it left the fault flags:
\* the reset clears status and control before RNGEN is set again, the
\* warm-up polls the status register, the init that returns yields an
\* instance of an enabled peripheral with data ready and no fault recorded,
\* and a get_rand on it that ends with no fault flag set returns a word.
C11_ReinitRoundTrip ==
    (released # "never" /\ owner # "caller") =>
        /\ pc = "init_rngen" =>
                (sr = ClearStatus /\ ~cr.rngen /\ rcc.rngen /\ dr = ZeroWord)
        /\ pc \in WarmUpPcs => Running
        /\ (op = "init" /\ pc = "idle") =>
                /\ owner = "rng" /\ result = Ok(<<>>)
                /\ Running /\ sr.drdy /\ warmExit.drdy
                /\ srReads >= 1 /\ faults = 0
        /\ (op = "get_rand" /\ pc = "idle" /\ ~Faulty(sr)) =>
                (result.tag = "Ok" /\ result.val \in Words)

\* the first instance was released with a fault flag set; get_rand on the
\* instance of the second init returned a word
C11_Witness ==
    /\ released = "faulty" /\ owner = "rng"
    /\ op = "get_rand" /\ pc = "idle"
    /\ result.tag = "Ok" /\ result.val \in Words

\* C12: the handle is with the caller, inside init, or inside the one
\* instance, and changes hands only by init called by the caller who holds
\* it (caller -> init), init returning (init -> instance) and release
\* (instance -> caller); init runs only while it holds the handle and an
\* operation on an instance only while the instance holds it.
C12_OneInstancePerHandle ==
    [][ /\ owner' # owner =>
                \/ owner = "caller" /\ owner' = "init" /\ pc = "idle"
                        /\ pc' = "init_pll_check" /\ op' = "init"
                \/ owner = "init" /\ owner' = "rng" /\ pc = "init_exit"
                        /\ pc' = "idle"
                \/ owner = "rng" /\ owner' = "caller" /\ pc = "idle"
                        /\ pc' = "idle" /\ op' = "release"
        /\ pc' \in InitPcs => owner' = "init"
        /\ pc' \in RngPcs => owner' = "rng"
        /\ owner' = "caller" => (pc' = "idle" /\ op' \in {"none", "release"})
        /\ owner' = "init" => op' = "init" ]_vars

\* the caller holds the handle again after a release, no operation runs
C12_Witness ==
    /\ owner = "caller" /\ op = "release" /\ pc = "idle"
    /\ released # "never" /\ Running

\* C13: release accesses no register: clock control (PLL, clock gate),
\* control, status and data registers and the interrupt mask are what they
\* were, no register read is counted, so the generator stays enabled.
C13_ReleaseTouchesNoRegister ==
    [][ (owner = "rng" /\ owner' = "caller") =>
            /\ rcc' = rcc /\ cr' = cr /\ sr' = sr /\ dr' = dr /\ irq' = irq
            /\ srReads' = srReads /\ drReads' = drReads
            /\ rcc'.rngen /\ cr'.rngen /\ rcc'.pllon ]_vars

\* released, with the generator still enabled and a word waiting
C13_Witness ==
    /\ owner = "caller" /\ op = "release"
    /\ cr.rngen /\ rcc.rngen /\ sr.drdy

\* C14: while one instance holds the handle no step clears a set fault
\* flag, the control register or the clock gate; once get_rand has returned
\* a fault on the instance the flags stay set, no data register read is
\* made and every get_rand that returns returns a fault; the record of the
\* fault ends only with an init called after a release.
C14_NoInPlaceRecovery ==
    [][ /\ (owner = "rng" /\ owner' = "rng") =>
                /\ sr.cecs => sr'.cecs
                /\ sr.secs => sr'.secs
                /\ cr' = cr /\ rcc'.rngen = rcc.rngen
        /\ (faults > 0 /\ owner = "rng" /\ owner' = "rng") =>
                /\ faults' >= faults /\ Faulty(sr')
                /\ drReads' # drReads + 1 /\ pc' # "gr_read"
        /\ (faults > 0 /\ op' = "get_rand" /\ pc # "idle" /\ pc' = "idle") =>
                result'.tag = "Err"
        /\ (faults > 0 /\ faults' = 0) =>
                (owner = "caller" /\ owner' = "init" /\ op = "release") ]_vars

\* a second fault returned by get_rand on the same instance, with a word
\* waiting in the data register
C14_Witness ==
    /\ faults = 2 /\ owner = "rng"
    /\ op = "get_rand" /\ pc = "idle" /\ result.tag = "Err"
    /\ sr.drdy

\* C15 as stated: every data-register read of get_rand happens while
\* data-ready is set and neither fault flag is set.
C15_ReadWhileFaultFree ==
    [][ drReads' = drReads + 1 =>
            (sr.drdy /\ ~sr.cecs /\ ~sr.secs) ]_vars

\* C15, amended: every word get_rand returns is the whole data-register
\* word, read while data-ready was set and after a status read of the same
\* call that showed data-ready set and both fault flags clear; the flags
\* are not read again before the data register is.
C15_ReadAfterCleanStatus ==
    [][ drReads' = drReads + 1 =>
            /\ pc = "gr_read" /\ sr.drdy /\ dr \in Words
            /\ status.drdy /\ ~status.cecs /\ ~status.secs
            /\ srReads' = srReads
            /\ words' = Append(words, dr)
            /\ op \in {"get_rand", "next_u32"} => result' = Ok(dr) ]_vars

\* get_rand is about to read the data register; a fault flag was raised
\* after its status read
C15_Witness ==
    /\ op = "get_rand" /\ pc = "gr_read"
    /\ ~Faulty(status) /\ status.drdy
    /\ Faulty(sr) /\ sr.drdy

\* C16 as stated: once the PLL is ready, init waits for nothing else
\* before it leaves the section in which interrupts are masked: no further
\* iteration of a busy-wait loop is made inside it.
C16_OnlyPllWaitMasked ==
    [][ (owner = "init" /\ rcc.pllrdy) => polls' = polls ]_vars

\* C16, amended: interrupts stay masked through the PLL-ready wait and
\* through the data-ready warm-up wait, which lies inside the same section:
\* every waiting iteration after the PLL wait is a warm-up poll that found
\* data-ready clear, made with interrupts masked; when the PLL locks and the
\* generator delivers data, init leaves the section by returning the
\* instance, unless it aborts on a clock error.
C16_MaskedUntilDataReady ==
    /\ [][ (owner = "init" /\ polls' = polls + 1) =>
                (pc = "init_warm_poll" /\ ~sr.drdy /\ rcc.pllrdy
                 /\ ~irq /\ ~irq') ]_vars
    /\ (owner = "init") ~> (owner = "rng" \/ pc = "aborted")

\* init, called with interrupts enabled, has the PLL ready and is waiting
\* for data-ready with interrupts masked
C16_Witness ==
    /\ owner = "init" /\ pc = "init_warm_assert"
    /\ rcc.pllrdy /\ ~sr.drdy /\ polls >= 1
    /\ irqSaved /\ ~irq

\* positions of init at which it writes a register
InitWritePcs == {"init_pll_on", "init_clk_enable", "init_reset", "init_rngen"}

\* C17: init writes the clock-control registers (PLL enable, clock gate,
\* peripheral reset) and the control register only inside init and with
\* interrupts masked before and after the write; the mask state saved at
\* the call is the state at the call, is kept throughout, and is the state
\* of the interrupt mask when init returns.
C17_WritesMaskedAndRestored ==
    [][ /\ (\/ rcc'.pllon # rcc.pllon \/ rcc'.rngen # rcc.rngen
            \/ cr' # cr
            \/ (pc \in InitWritePcs /\ pc' # pc)) =>
                (owner = "init" /\ pc \in InitWritePcs /\ ~irq /\ ~irq')
        /\ (owner = "caller" /\ owner' = "init") =>
                (irqSaved' = irq /\ ~irq')
        /\ owner = "init" =>
                (irqSaved' = irqSaved /\ (owner' = "init" => ~irq'))
        /\ (owner = "init" /\ owner' = "rng") => irq' = irqSaved ]_vars

\* init was called with interrupts enabled, switched the PLL on, and has
\* returned with interrupts enabled again
C17_Witness ==
    /\ op = "init" /\ pc = "idle" /\ owner = "rng"
    /\ irq /\ irqSaved /\ rcc.pllon /\ cr.rngen

\* the order of init's positions
InitEdges ==
    { <<"init_pll_check", "init_pll_on">>,
      <<"init_pll_check", "init_clk_enable">>,
      <<"init_pll_on", "init_pll_wait">>,
      <<"init_pll_wait", "init_clk_enable">>,
      <<"init_clk_enable", "init_reset">>,
      <<"init_reset", "init_rngen">>,
      <<"init_rngen", "init_warm_poll">>,
      <<"init_warm_poll", "init_warm_assert">>,
      <<"init_warm_poll", "init_exit">>,
      <<"init_warm_assert", "init_warm_poll">>,
      <<"init_warm_assert", "aborted">>,
      <<"init_exit", "idle">> }

\* C18: init's register effects come in one order.  The PLL-enable bit is
\* written only after the first check found the PLL not ready, and is then
\* waited on; the clock gate is opened only once the PLL was seen ready;
\* the reset is issued with the gate open and leaves status and control
\* cleared; RNGEN is set after the reset and before any status read; the
\* status register is read only in the warm-up, with gate and RNGEN set.
C18_InitOrder ==
    [][ /\ (pc \in InitPcs /\ pc' # pc) => <<pc, pc'>> \in InitEdges
        /\ (pc' = "init_pll_on" /\ pc' # pc) => ~rcc.pllrdy
        /\ rcc'.pllon # rcc.pllon => (pc = "init_pll_on" /\ ~rcc.rngen)
        /\ (pc' = "init_clk_enable" /\ pc' # pc) => rcc.pllrdy
        /\ (pc = "init_clk_enable" /\ pc' # pc) => (rcc.pllrdy /\ rcc'.rngen)
        /\ (pc = "init_reset" /\ pc' # pc) =>
                (rcc.rngen /\ sr' = ClearStatus /\ ~cr'.rngen)
        /\ (pc = "init_rngen" /\ pc' # pc) =>
                (~cr.rngen /\ cr'.rngen /\ rcc.rngen /\ srReads = 0)
        /\ (op = "init" /\ srReads' = srReads + 1) =>
                (pc \in {"init_warm_poll", "init_warm_assert"} /\ Running) ]_vars

\* init started the PLL itself, went through gate, reset and RNGEN and has
\* made its first status read
C18_Witness ==
    /\ op = "init" /\ pc = "init_warm_assert" /\ srReads = 1
    /\ rcc.pllon /\ rcc.pllrdy /\ Running
    /\ released = "never"

\* C19: get_rand reads the status register once per loop iteration and
\* leaves the loop at the first status value with a flag set: while it
\* polls, every status value read so far was all-clear; when it stops,
\* exactly the last one was not (k idle polls, k + 1 status reads; a fault
\* at the first poll means one status read and no idle poll).  The data
\* register is read once for a returned word and never for a fault.
C19_PollCounts ==
    op = "get_rand" =>
        /\ pc = "gr_poll" =>
                /\ srReads = polls /\ drReads = 0
                /\ srReads > 0 => status = ClearStatus
        /\ pc = "gr_read" =>
                /\ srReads = polls + 1 /\ drReads = 0
                /\ status.drdy /\ ~Faulty(status)
        /\ pc = "idle" =>
                /\ srReads = polls + 1 /\ status # ClearStatus
                /\ result.tag = "Ok" => drReads = 1
                /\ result.tag = "Err" => (drReads = 0 /\ Faulty(status))
        /\ pc \in {"gr_poll", "gr_read", "idle"}

\* scenario A: not-ready, not-ready, ready with 0xDEADBEEF
C19_Witness ==
    /\ op = "get_rand" /\ pc = "idle"
    /\ polls = 2 /\ srReads = 3 /\ drReads = 1
    /\ result = Ok(<<57005, 48879>>)

\* C20: a poll of get_rand that reads an all-clear status never ends the
\* call, however many came before it; and when the processor keeps running
\* and the generator keeps raising data-ready (or a fault flag), every
\* get_rand, and every byte fill built on it, comes to an end: it returns
\* or, in the unwrapping adapters, aborts.
C20_ReturnsOnlyOnFlag ==
    /\ [][ (pc = "gr_poll" /\ srReads' = srReads + 1 /\ sr = ClearStatus) =>
                (pc' = "gr_poll" /\ result' = result /\ polls' = polls + 1) ]_vars
    /\ (pc \in RngPcs) ~> (pc \in {"idle", "aborted"})

\* a byte fill of more than one word that returned after idle polls
C20_Witness ==
    /\ op = "try_fill_bytes" /\ pc = "idle" /\ result = Ok(<<>>)
    /\ Len(buffer) > BATCH_SIZE /\ drReads = 2
    /\ srReads > drReads
====
